---------------------------- MODULE Spec2Model ----------------------------
(***************************************************************************)
(* Model of src/models.py: the per-class accumulator and metrics engine    *)
(* (_initialize_per_class_dict, _update_per_class_dict, _finalize_metrics, *)
(* compute_classification_metrics, the loop body of test_model), the       *)
(* EarlyStopping class, and the train_model / validate_model passes.       *)
(*                                                                         *)
(* Python values are modelled as follows.                                  *)
(*   - a defaultdict / dict is a function whose DOMAIN is its key set;     *)
(*   - an optional value (None or x) is the sequence <<>> or <<x>>;        *)
(*   - a float that is the quotient of two integers is an exact rational,  *)
(*     a pair <<numerator, denominator>> in lowest terms, denominator > 0; *)
(*   - a validation loss is an integer number of tenths (1.2 is 12);       *)
(*   - a raised exception is recorded in err, the operation in last.       *)
(* The sklearn calls of compute_classification_metrics (macro_precision,   *)
(* macro_recall, lines 630-631) are library calls and are not modelled.    *)
(***************************************************************************)
EXTENDS Integers, Sequences, FiniteSets

VARIABLES
    \* evaluation pass (test_model)
    stats, y_true_all, y_pred_all, metrics, dataset_len,
    \* EarlyStopping object and the model parameters it observes
    patience, delta, best_score, early_stop, counter, best_model_state,
    epoch_stop, params, epoch, obs_best_epoch, obs_best_params, observations,
    \* train_model / validate_model call frame
    pc, save, losses, corrects, size, seen, avg_loss, accuracy, ret,
    \* outcome of the last operation
    err, last

vars == <<stats, y_true_all, y_pred_all, metrics, dataset_len,
          patience, delta, best_score, early_stop, counter, best_model_state,
          epoch_stop, params, epoch, obs_best_epoch, obs_best_params,
          observations,
          pc, save, losses, corrects, size, seen, avg_loss, accuracy, ret,
          err, last>>

evalVars == <<stats, y_true_all, y_pred_all, metrics, dataset_len>>

esVars == <<patience, delta, best_score, early_stop, counter,
            best_model_state, epoch_stop, params, epoch, obs_best_epoch,
            obs_best_params, observations>>

loopVars == <<pc, save, losses, corrects, size, seen, avg_loss, accuracy, ret>>

---------------------------------------------------------------------------
\* Bounds of the model.

NumClasses == 2

MaxSamples == 3

MaxBatch == 2

MaxDirectLen == 2

MaxDirectSamples == 2

MaxPatience == 2

MaxDelta == 1

MaxLoss == 2

MaxEpoch == 4

MaxParam == 1

MaxLoaderSize == 3

Classes == 0 .. (NumClasses - 1)

\* The model being trained and observed, and a second model object.
Models == {"model", "other"}

ParamValues == 0 .. MaxParam

\* Label sequences of length lo..hi.
LabelSeqs(lo, hi) == UNION {[1 .. n -> Classes] : n \in lo .. hi}

---------------------------------------------------------------------------
\* Python values.

None == <<>>

Some(x) == <<x>>

Abs(x) == IF x < 0 THEN -x ELSE x

Min(a, b) == IF a <= b THEN a ELSE b

RECURSIVE GCD(_, _)
GCD(a, b) == IF b = 0 THEN a ELSE GCD(b, a % b)

\* The rational n/d, d > 0, in lowest terms.
Rat(n, d) == LET g == GCD(Abs(n), d) IN <<n \div g, d \div g>>

Zero == <<0, 1>>

One == <<1, 1>>

RAdd(a, b) == Rat(a[1] * b[2] + b[1] * a[2], a[2] * b[2])

RMul(a, b) == Rat(a[1] * b[1], a[2] * b[2])

\* a / b for b > 0.
RDiv(a, b) == Rat(a[1] * b[2], a[2] * b[1])

RLeq(a, b) == a[1] * b[2] <= b[1] * a[2]

RPos(a) == a[1] > 0

\* dict.get(k, default)
Get(d, k, default) == IF k \in DOMAIN d THEN d[k] ELSE default

\* d[k] = v on a dict (the key is created when absent).
Put(d, k, v) == [x \in (DOMAIN d) \cup {k} |-> IF x = k THEN v ELSE d[x]]

EmptyDict == [x \in {} |-> 0]

RECURSIVE SumOver(_, _)
SumOver(d, keys) ==
    IF keys = {} THEN 0
    ELSE LET k == CHOOSE x \in keys : TRUE
         IN d[k] + SumOver(d, keys \ {k})

\* sum(d.values())
SumValues(d) == SumOver(d, DOMAIN d)

RECURSIVE SumLenOver(_, _)
SumLenOver(d, keys) ==
    IF keys = {} THEN 0
    ELSE LET k == CHOOSE x \in keys : TRUE
         IN Len(d[k]) + SumLenOver(d, keys \ {k})

\* sum(len(v) for v in d.values())
SumLens(d) == SumLenOver(d, DOMAIN d)

RECURSIVE SumSeq(_)
SumSeq(s) == IF s = <<>> THEN 0 ELSE Head(s) + SumSeq(Tail(s))

---------------------------------------------------------------------------
\* Per-class accumulator.

\* _initialize_per_class_dict
InitializePerClassDict ==
    [correct_total      |-> 0,
     total_per_class    |-> EmptyDict,
     correct_per_class  |-> EmptyDict,
     wrong_predictions  |-> EmptyDict,
     predicted_as_class |-> EmptyDict]

\* Whether torch can broadcast two 1-D tensors of lengths a and b.
Broadcastable(a, b) == a = b \/ a = 1 \/ b = 1

\* Length of the broadcast of two 1-D tensors of lengths a and b.
BroadcastLen(a, b) == IF a = 1 THEN b ELSE a

\* y_pred.eq(y_true).sum().item(): a tensor of length 1 is broadcast
\* against the other one.
EqSum(y_pred, y_true) ==
    LET n == BroadcastLen(Len(y_pred), Len(y_true))
        P(k) == IF Len(y_pred) = 1 THEN y_pred[1] ELSE y_pred[k]
        T(k) == IF Len(y_true) = 1 THEN y_true[1] ELSE y_true[k]
    IN Cardinality({k \in 1 .. n : P(k) = T(k)})

\* Faulty variant: the ground-truth total is only counted for a correct prediction.
UpdatePairTotalInIf(st, true_label, pred_label) ==
    LET s2 == [st EXCEPT !.predicted_as_class =
                   Put(@, pred_label, Get(@, pred_label, 0) + 1)]
    IN IF true_label = pred_label
       THEN [s2 EXCEPT !.total_per_class =
                          Put(@, true_label, Get(@, true_label, 0) + 1),
                       !.correct_per_class =
                          Put(@, true_label, Get(@, true_label, 0) + 1)]
       ELSE [s2 EXCEPT !.wrong_predictions =
                 Put(@, true_label, Append(Get(@, true_label, <<>>), pred_label))]

\* Faulty variant: predicted_as_class is only counted for a wrong prediction.
UpdatePairPredInElse(st, true_label, pred_label) ==
    LET s1 == [st EXCEPT !.total_per_class =
                   Put(@, true_label, Get(@, true_label, 0) + 1)]
    IN IF true_label = pred_label
       THEN [s1 EXCEPT !.correct_per_class =
                 Put(@, true_label, Get(@, true_label, 0) + 1)]
       ELSE [s1 EXCEPT !.predicted_as_class =
                          Put(@, pred_label, Get(@, pred_label, 0) + 1),
                       !.wrong_predictions =
                 Put(@, true_label, Append(Get(@, true_label, <<>>), pred_label))]

\* Faulty variant: a wrong prediction is filed under the predicted label.
UpdatePairWrongKey(st, true_label, pred_label) ==
    LET s1 == [st EXCEPT !.total_per_class =
                   Put(@, true_label, Get(@, true_label, 0) + 1)]
        s2 == [s1 EXCEPT !.predicted_as_class =
                   Put(@, pred_label, Get(@, pred_label, 0) + 1)]
    IN IF true_label = pred_label
       THEN [s2 EXCEPT !.correct_per_class =
                 Put(@, true_label, Get(@, true_label, 0) + 1)]
       ELSE [s2 EXCEPT !.wrong_predictions =
                 Put(@, pred_label, Append(Get(@, pred_label, <<>>), true_label))]

\* Body of the loop of _update_per_class_dict for one (true, predicted) pair.
UpdatePair(st, true_label, pred_label) ==
    LET s1 == [st EXCEPT !.total_per_class =
                   Put(@, true_label, Get(@, true_label, 0) + 1)]
        s2 == [s1 EXCEPT !.predicted_as_class =
                   Put(@, pred_label, Get(@, pred_label, 0) + 1)]
    IN IF true_label = pred_label
       THEN [s2 EXCEPT !.correct_per_class =
                 Put(@, true_label, Get(@, true_label, 0) + 1)]
       ELSE [s2 EXCEPT !.wrong_predictions =
                 Put(@, true_label, Append(Get(@, true_label, <<>>), pred_label))]

\* for true_label, pred_label in zip(y_true, y_pred): pairs k .. min length.
RECURSIVE ZipLoop(_, _, _, _)
ZipLoop(st, y_true, y_pred, k) ==
    IF k > Min(Len(y_true), Len(y_pred)) THEN st
    ELSE ZipLoop(UpdatePair(st, y_true[k], y_pred[k]), y_true, y_pred, k + 1)

\* Whether _update_per_class_dict raises: eq() of two tensors that cannot
\* be broadcast raises RuntimeError, before anything is assigned.
UpdateRaises(y_pred, y_true) == ~Broadcastable(Len(y_pred), Len(y_true))

\* _update_per_class_dict(stats, y_pred, y_true), when it does not raise.
UpdatePerClassDict(st, y_pred, y_true) ==
    ZipLoop([st EXCEPT !.correct_total = @ + EqSum(y_pred, y_true)],
            y_true, y_pred, 1)

---------------------------------------------------------------------------
\* Metrics engine.

\* tp = correct_per_class.get(i, 0)
Tp(st, i) == Get(st.correct_per_class, i, 0)

\* fn = len(wrong_predictions.get(i, []))
Fn(st, i) == Len(Get(st.wrong_predictions, i, <<>>))

\* fp = predicted_as_class.get(i, 0) - tp
Fp(st, i) == Get(st.predicted_as_class, i, 0) - Tp(st, i)

\* support = total_per_class.get(i, 0)
Support(st, i) == Get(st.total_per_class, i, 0)

\* precision = tp / (tp + fp) if (tp + fp) > 0 else 0
Precision(st, i) ==
    IF Tp(st, i) + Fp(st, i) > 0
    THEN Rat(Tp(st, i), Tp(st, i) + Fp(st, i)) ELSE Zero

\* recall = tp / (tp + fn) if (tp + fn) > 0 else 0
Recall(st, i) ==
    IF Tp(st, i) + Fn(st, i) > 0
    THEN Rat(Tp(st, i), Tp(st, i) + Fn(st, i)) ELSE Zero

\* f1_score = 2 * precision * recall / (precision + recall), or 0
F1Score(st, i) ==
    LET p == Precision(st, i)
        r == Recall(st, i)
    IN IF RPos(RAdd(p, r))
       THEN RDiv(RMul(RMul(<<2, 1>>, p), r), RAdd(p, r)) ELSE Zero

\* macro_f1_sum after the classes 0 .. n-1
RECURSIVE MacroF1Sum(_, _)
MacroF1Sum(st, n) ==
    IF n = 0 THEN Zero ELSE RAdd(MacroF1Sum(st, n - 1), F1Score(st, n - 1))

\* weighted_f1_sum after the classes 0 .. n-1
RECURSIVE WeightedF1Sum(_, _)
WeightedF1Sum(st, n) ==
    IF n = 0 THEN Zero
    ELSE RAdd(WeightedF1Sum(st, n - 1),
              RMul(F1Score(st, n - 1), <<Support(st, n - 1), 1>>))

\* compute_classification_metrics, for num_classes > 0 (without the two
\* sklearn scores).
ComputeClassificationMetrics(st, num_classes) ==
    LET total_samples == SumValues(st.total_per_class)
    IN [per_class_precision |-> [i \in 0 .. (num_classes - 1) |-> Precision(st, i)],
        per_class_recall    |-> [i \in 0 .. (num_classes - 1) |-> Recall(st, i)],
        per_class_f1        |-> [i \in 0 .. (num_classes - 1) |-> F1Score(st, i)],
        macro_f1            |-> RDiv(MacroF1Sum(st, num_classes), <<num_classes, 1>>),
        weighted_f1         |-> IF total_samples > 0
                                THEN RDiv(WeightedF1Sum(st, num_classes),
                                          <<total_samples, 1>>)
                                ELSE Zero]

\* Whether _finalize_metrics raises: stats['correct_total'] / len(dataset)
\* is a ZeroDivisionError for a dataset of size 0.
FinalizeRaises(len_dataset) == len_dataset = 0

\* _finalize_metrics, when it does not raise.
FinalizeMetrics(st, yt, yp, len_dataset, num_classes) ==
    LET m == ComputeClassificationMetrics(st, num_classes)
    IN [per_class_precision |-> m.per_class_precision,
        per_class_recall    |-> m.per_class_recall,
        per_class_f1        |-> m.per_class_f1,
        macro_f1            |-> m.macro_f1,
        weighted_f1         |-> m.weighted_f1,
        overall_accuracy    |-> Rat(st.correct_total * 100, len_dataset),
        correct_labels      |-> yt,
        predicted_labels    |-> yp]

---------------------------------------------------------------------------
\* Initial values of the three groups of variables.

EvalInit ==
    /\ stats = InitializePerClassDict
    /\ y_true_all = <<>>
    /\ y_pred_all = <<>>
    /\ metrics = None
    /\ dataset_len = 0

\* EarlyStopping.__init__ and a model with some parameters.
ESInit ==
    /\ patience = 0
    /\ delta = 0
    /\ best_score = None
    /\ early_stop = FALSE
    /\ counter = 0
    /\ best_model_state = None
    /\ epoch_stop = 0
    /\ params = [m \in Models |-> 0]
    /\ epoch = 0
    /\ obs_best_epoch = None
    /\ obs_best_params = None
    /\ observations = 0

LoopInit ==
    /\ pc = "idle"
    /\ save = FALSE
    /\ losses = <<>>
    /\ corrects = 0
    /\ size = 0
    /\ seen = 0
    /\ avg_loss = None
    /\ accuracy = None
    /\ ret = None

OutcomeInit ==
    /\ err = "none"
    /\ last = [op |-> "init"]

---------------------------------------------------------------------------
\* test_model: one evaluation pass over a loader whose dataset has
\* dataset_len samples.

InitEval ==
    /\ stats = InitializePerClassDict
    /\ y_true_all = <<>>
    /\ y_pred_all = <<>>
    /\ metrics = None
    /\ dataset_len \in 0 .. MaxSamples
    /\ ESInit /\ LoopInit /\ OutcomeInit

\* One iteration of the loop of test_model: the batch's predictions and
\* labels have the same length.
TestBatch(y_pred, y_true) ==
    /\ err = "none"
    /\ last.op \in {"init", "test_batch"}
    /\ Len(y_pred) = Len(y_true)
    /\ Len(y_true_all) + Len(y_true) <= dataset_len
    /\ stats' = UpdatePerClassDict(stats, y_pred, y_true)
    /\ y_true_all' = y_true_all \o y_true
    /\ y_pred_all' = y_pred_all \o y_pred
    /\ metrics' = Some(FinalizeMetrics(stats', y_true_all', y_pred_all',
                                       dataset_len, NumClasses))
    /\ err' = "none"
    /\ last' = [op |-> "test_batch"]
    /\ UNCHANGED <<dataset_len, esVars, loopVars>>

\* The end of test_model: metrics is only bound by the loop body.
TestReturn ==
    /\ err = "none"
    /\ last.op \in {"init", "test_batch"}
    /\ err' = IF metrics = None THEN "UnboundLocalError" ELSE "none"
    /\ last' = [op |-> "test_return"]
    /\ UNCHANGED <<evalVars, esVars, loopVars>>

\* A call of _finalize_metrics on the accumulated stats.
FinalizeCall ==
    /\ err = "none"
    /\ last.op \in {"init", "test_batch", "test_return"}
    /\ IF FinalizeRaises(dataset_len)
       THEN /\ err' = "ZeroDivisionError"
            /\ metrics' = metrics
       ELSE /\ err' = "none"
            /\ metrics' = Some(FinalizeMetrics(stats, y_true_all, y_pred_all,
                                               dataset_len, NumClasses))
    /\ last' = [op |-> "_finalize_metrics"]
    /\ UNCHANGED <<stats, y_true_all, y_pred_all, dataset_len, esVars, loopVars>>

NextEval ==
    \/ \E n \in 1 .. Min(MaxBatch, dataset_len - Len(y_true_all)) :
          \E y_pred, y_true \in LabelSeqs(n, n) : TestBatch(y_pred, y_true)
    \/ TestReturn
    \/ FinalizeCall

SpecEval == InitEval /\ [][NextEval]_vars

---------------------------------------------------------------------------
\* Direct calls of _update_per_class_dict and compute_classification_metrics
\* on one stats structure, with label tensors of any two lengths.

InitAccum == EvalInit /\ ESInit /\ LoopInit /\ OutcomeInit

\* _update_per_class_dict(stats, y_pred, y_true)
UpdateCall(y_pred, y_true) ==
    /\ SumValues(stats.total_per_class) + Min(Len(y_pred), Len(y_true))
          <= MaxDirectSamples
    /\ IF UpdateRaises(y_pred, y_true)
       THEN /\ err' = "RuntimeError"
            /\ stats' = stats
       ELSE /\ err' = "none"
            /\ stats' = UpdatePerClassDict(stats, y_pred, y_true)
    /\ last' = [op |-> "_update_per_class_dict",
                pred_len |-> Len(y_pred), true_len |-> Len(y_true)]
    /\ UNCHANGED <<y_true_all, y_pred_all, metrics, dataset_len, esVars, loopVars>>

\* compute_classification_metrics on the fields of stats
ComputeCall ==
    /\ metrics' = Some(ComputeClassificationMetrics(stats, NumClasses))
    /\ err' = "none"
    /\ last' = [op |-> "compute_classification_metrics"]
    /\ UNCHANGED <<stats, y_true_all, y_pred_all, dataset_len, esVars, loopVars>>

NextAccum ==
    \/ \E a, b \in 0 .. MaxDirectLen :
          /\ SumValues(stats.total_per_class) + Min(a, b) <= MaxDirectSamples
          /\ \E y_pred \in LabelSeqs(a, a), y_true \in LabelSeqs(b, b) :
                UpdateCall(y_pred, y_true)
    \/ ComputeCall

SpecAccum == InitAccum /\ [][NextAccum]_vars

---------------------------------------------------------------------------
\* EarlyStopping.

\* model.state_dict(): the returned tensors share their storage with the
\* parameters of the model, so the dict is a reference to them.
StateDict(m) == [ref |-> m]

\* The parameter values a state dict holds at the moment it is read.
StateValue(sd) == params[sd.ref]

\* The EarlyStopping object as a record of its attributes.
Self ==
    [patience         |-> patience,
     delta            |-> delta,
     best_score       |-> best_score,
     early_stop       |-> early_stop,
     counter          |-> counter,
     best_model_state |-> best_model_state,
     epoch_stop       |-> epoch_stop]

\* Which branch of __call__ an observation takes.
CallBranch(self, val_loss) ==
    LET score == -val_loss
    IN IF self.best_score = None THEN "first"
       ELSE IF score < self.best_score[1] + self.delta THEN "no_improve"
       ELSE "improve"

\* Faulty variant: an improvement clears the stop flag.
EarlyStoppingCallResets(self, val_loss, m, e) ==
    LET score == -val_loss
        branch == CallBranch(self, val_loss)
    IN IF branch = "first"
       THEN [self EXCEPT !.best_score = Some(score),
                         !.best_model_state = Some(StateDict(m))]
       ELSE IF branch = "no_improve"
       THEN LET c == self.counter + 1
            IN IF c >= self.patience
               THEN [self EXCEPT !.counter = c,
                                 !.early_stop = TRUE,
                                 !.epoch_stop = e - self.patience]
               ELSE [self EXCEPT !.counter = c]
       ELSE [self EXCEPT !.best_score = Some(score),
                         !.best_model_state = Some(StateDict(m)),
                         !.counter = 0,
                         !.early_stop = FALSE]

\* Faulty variant: epoch_stop is the epoch of the stop itself.
EarlyStoppingCallStopAtEpoch(self, val_loss, m, e) ==
    LET score == -val_loss
        branch == CallBranch(self, val_loss)
    IN IF branch = "first"
       THEN [self EXCEPT !.best_score = Some(score),
                         !.best_model_state = Some(StateDict(m))]
       ELSE IF branch = "no_improve"
       THEN LET c == self.counter + 1
            IN IF c >= self.patience
               THEN [self EXCEPT !.counter = c,
                                 !.early_stop = TRUE,
                                 !.epoch_stop = e]
               ELSE [self EXCEPT !.counter = c]
       ELSE [self EXCEPT !.best_score = Some(score),
                         !.best_model_state = Some(StateDict(m)),
                         !.counter = 0]

\* EarlyStopping.__call__(val_loss, model, epoch): the object afterwards.
EarlyStoppingCall(self, val_loss, m, e) ==
    LET score == -val_loss
        branch == CallBranch(self, val_loss)
    IN IF branch = "first"
       THEN [self EXCEPT !.best_score = Some(score),
                         !.best_model_state = Some(StateDict(m))]
       ELSE IF branch = "no_improve"
       THEN LET c == self.counter + 1
            IN IF c >= self.patience
               THEN [self EXCEPT !.counter = c,
                                 !.early_stop = TRUE,
                                 !.epoch_stop = e - self.patience]
               ELSE [self EXCEPT !.counter = c]
       ELSE [self EXCEPT !.best_score = Some(score),
                         !.best_model_state = Some(StateDict(m)),
                         !.counter = 0]

\* EarlyStopping(patience, delta) next to a model with initial parameters.
InitES ==
    /\ patience \in 0 .. MaxPatience
    /\ delta \in 0 .. MaxDelta
    /\ best_score = None
    /\ early_stop = FALSE
    /\ counter = 0
    /\ best_model_state = None
    /\ epoch_stop = 0
    /\ params = [m \in Models |-> 0]
    /\ epoch = 0
    /\ obs_best_epoch = None
    /\ obs_best_params = None
    /\ observations = 0
    /\ EvalInit /\ LoopInit /\ OutcomeInit

\* early_stopping(val_loss, model, epoch), once per epoch with consecutive
\* epoch numbers.  obs_best_epoch and obs_best_params record the epoch and
\* the parameters of the model at the observation that took the snapshot.
Observe(val_loss) ==
    /\ epoch < MaxEpoch
    /\ LET branch == CallBranch(Self, val_loss)
           new == EarlyStoppingCall(Self, val_loss, "model", epoch)
       IN /\ best_score' = new.best_score
          /\ early_stop' = new.early_stop
          /\ counter' = new.counter
          /\ best_model_state' = new.best_model_state
          /\ epoch_stop' = new.epoch_stop
          /\ obs_best_epoch' =
                IF branch = "no_improve" THEN obs_best_epoch ELSE Some(epoch)
          /\ obs_best_params' =
                IF branch = "no_improve" THEN obs_best_params
                ELSE Some(params["model"])
          /\ last' = [op |-> "__call__", branch |-> branch, epoch |-> epoch]
    /\ observations' = observations + 1
    /\ epoch' = epoch + 1
    /\ err' = "none"
    /\ UNCHANGED <<patience, delta, params, evalVars, loopVars>>

\* optimizer.step() of a training pass: the parameters of the model are
\* updated in place.
TrainStep(v) ==
    /\ v # params["model"]
    /\ params' = [params EXCEPT !["model"] = v]
    /\ err' = "none"
    /\ last' = [op |-> "optimizer.step"]
    /\ UNCHANGED <<patience, delta, best_score, early_stop, counter,
                   best_model_state, epoch_stop, epoch, obs_best_epoch,
                   obs_best_params, observations, evalVars, loopVars>>

\* Faulty variant: loading without a snapshot silently resets the parameters.
LoadBestModelSilent(m) ==
    /\ IF best_model_state = None
       THEN /\ err' = "none"
            /\ params' = [params EXCEPT ![m] = 0]
       ELSE /\ err' = "none"
            /\ params' = [params EXCEPT ![m] = StateValue(best_model_state[1])]
    /\ last' = [op |-> "load_best_model", model |-> m]
    /\ UNCHANGED <<patience, delta, best_score, early_stop, counter,
                   best_model_state, epoch_stop, epoch, obs_best_epoch,
                   obs_best_params, observations, evalVars, loopVars>>

\* EarlyStopping.load_best_model(model): load_state_dict(None) raises before
\* any parameter is written; load_state_dict of a state dict copies its
\* values into the parameters of the model.
LoadBestModel(m) ==
    /\ IF best_model_state = None
       THEN /\ err' = "TypeError"
            /\ params' = params
       ELSE /\ err' = "none"
            /\ params' = [params EXCEPT ![m] = StateValue(best_model_state[1])]
    /\ last' = [op |-> "load_best_model", model |-> m]
    /\ UNCHANGED <<patience, delta, best_score, early_stop, counter,
                   best_model_state, epoch_stop, epoch, obs_best_epoch,
                   obs_best_params, observations, evalVars, loopVars>>

NextES ==
    \/ \E val_loss \in 0 .. MaxLoss : Observe(val_loss)
    \/ \E v \in ParamValues : TrainStep(v)
    \/ \E m \in Models : LoadBestModel(m)

SpecES == InitES /\ [][NextES]_vars

---------------------------------------------------------------------------
\* train_model and validate_model over a loader of at least one batch whose
\* dataset has size samples.  A batch is its length, its loss and its number
\* of correct predictions.

InitLoop == EvalInit /\ ESInit /\ LoopInit /\ OutcomeInit

\* Entry of train_model: losses, corrects = [], 0
StartTrain(sv, n) ==
    /\ pc \in {"idle", "returned", "raised"}
    /\ pc' = "train"
    /\ save' = sv
    /\ size' = n
    /\ losses' = <<>>
    /\ corrects' = 0
    /\ seen' = 0
    /\ avg_loss' = None
    /\ accuracy' = None
    /\ ret' = None
    /\ err' = "none"
    /\ last' = [op |-> "train_model"]
    /\ UNCHANGED <<evalVars, esVars>>

\* One iteration of the loop of train_model.
TrainBatch(b, loss, c, v) ==
    /\ pc = "train"
    /\ seen + b <= size
    /\ losses' = IF save THEN Append(losses, loss) ELSE losses
    /\ params' = [params EXCEPT !["model"] = v]
    /\ corrects' = corrects + c
    /\ seen' = seen + b
    /\ last' = [op |-> "train_batch"]
    /\ UNCHANGED <<pc, save, size, avg_loss, accuracy, ret, err, evalVars,
                   patience, delta, best_score, early_stop, counter,
                   best_model_state, epoch_stop, epoch, obs_best_epoch,
                   obs_best_params, observations>>

\* After the loop of train_model: sum(losses) / len(losses) raises
\* ZeroDivisionError on an empty list.
TrainFinish ==
    /\ pc = "train"
    /\ seen = size
    /\ IF Len(losses) = 0
       THEN /\ pc' = "raised"
            /\ err' = "ZeroDivisionError"
            /\ UNCHANGED <<avg_loss, accuracy, ret>>
       ELSE /\ pc' = "returned"
            /\ err' = "none"
            /\ avg_loss' = Some(Rat(SumSeq(losses), Len(losses)))
            /\ accuracy' = Some(Rat(100 * corrects, size))
            /\ ret' = IF save THEN Some(<<avg_loss'[1], accuracy'[1]>>)
                      ELSE Some(<<Zero, Zero>>)
    /\ last' = [op |-> "train_finish"]
    /\ UNCHANGED <<save, losses, corrects, size, seen, evalVars, esVars>>

\* Entry of validate_model: val_losses, corrects = [], 0
StartValidate(sv, n) ==
    /\ pc \in {"idle", "returned", "raised"}
    /\ pc' = "validate"
    /\ save' = sv
    /\ size' = n
    /\ losses' = <<>>
    /\ corrects' = 0
    /\ seen' = 0
    /\ avg_loss' = None
    /\ accuracy' = None
    /\ ret' = None
    /\ err' = "none"
    /\ last' = [op |-> "validate_model"]
    /\ UNCHANGED <<evalVars, esVars>>

\* One iteration of the loop of validate_model: the average loss and the
\* accuracy are computed inside the loop.
ValidateBatch(b, loss, c) ==
    /\ pc = "validate"
    /\ seen + b <= size
    /\ losses' = IF save THEN Append(losses, loss) ELSE losses
    /\ corrects' = corrects + c
    /\ seen' = seen + b
    /\ IF Len(losses') = 0
       THEN /\ pc' = "raised"
            /\ err' = "ZeroDivisionError"
            /\ UNCHANGED <<avg_loss, accuracy>>
       ELSE /\ pc' = pc
            /\ err' = err
            /\ avg_loss' = Some(Rat(SumSeq(losses'), Len(losses')))
            /\ accuracy' = Some(Rat(100 * corrects', size))
    /\ last' = [op |-> "validate_batch"]
    /\ UNCHANGED <<save, size, ret, evalVars, esVars>>

\* After the loop of validate_model.
ValidateFinish ==
    /\ pc = "validate"
    /\ seen = size
    /\ pc' = "returned"
    /\ ret' = IF save THEN Some(<<avg_loss[1], accuracy[1]>>)
              ELSE Some(<<Zero, Zero>>)
    /\ last' = [op |-> "validate_finish"]
    /\ UNCHANGED <<save, losses, corrects, size, seen, avg_loss, accuracy,
                   err, evalVars, esVars>>

NextLoop ==
    \/ \E sv \in BOOLEAN, n \in 1 .. MaxLoaderSize : StartTrain(sv, n)
    \/ \E b \in 1 .. MaxBatch, loss \in 0 .. MaxLoss, v \in ParamValues :
          \E c \in 0 .. b : TrainBatch(b, loss, c, v)
    \/ TrainFinish
    \/ \E sv \in BOOLEAN, n \in 1 .. MaxLoaderSize : StartValidate(sv, n)
    \/ \E b \in 1 .. MaxBatch, loss \in 0 .. MaxLoss :
          \E c \in 0 .. b : ValidateBatch(b, loss, c)
    \/ ValidateFinish

SpecLoop == InitLoop /\ [][NextLoop]_vars

---------------------------------------------------------------------------
\* Properties.

\* Reference confusion counts of the whole pass, from the flattened label
\* lists of test_model.
Pairs(t, q) ==
    Cardinality({k \in 1 .. Len(y_true_all) :
                    y_true_all[k] = t /\ y_pred_all[k] = q})

RefTp(i) == Pairs(i, i)

RefFn(i) ==
    Cardinality({k \in 1 .. Len(y_true_all) :
                    y_true_all[k] = i /\ y_pred_all[k] # i})

RefFp(i) ==
    Cardinality({k \in 1 .. Len(y_true_all) :
                    y_pred_all[k] = i /\ y_true_all[k] # i})

RefSupport(i) ==
    Cardinality({k \in 1 .. Len(y_true_all) : y_true_all[k] = i})

InUnitInterval(r) == RLeq(Zero, r) /\ RLeq(r, One)

\* C1: after any sequence of _update_per_class_dict calls with equal-length
\* label sequences on a structure made by _initialize_per_class_dict, the
\* sum of total_per_class equals correct_total plus the sum of the lengths
\* of the wrong_predictions lists.
C1_TotalsBalance ==
    SumValues(stats.total_per_class)
        = stats.correct_total + SumLens(stats.wrong_predictions)

\* Two or more batches have been accumulated, with correct and wrong pairs.
C1_Witness ==
    /\ last.op = "test_batch"
    /\ Len(y_true_all) > MaxBatch
    /\ stats.correct_total >= 1
    /\ SumLens(stats.wrong_predictions) >= 1

C3_StoppedIsSticky == [][early_stop => early_stop']_vars

\* An improving loss has been observed after the stop: counter is back to 0
\* and the flag still stands.
C3_Witness ==
    /\ early_stop
    /\ last.op = "__call__"
    /\ last.branch = "improve"
    /\ counter = 0

\* C4: train_model and validate_model over a non-empty loader complete
\* normally and return (average_loss, accuracy_percent) when save is True
\* and (0.0, 0.0) when save is False.
C4_ReturnsPairOrZeros ==
    (pc \in {"returned", "raised"})
        => /\ pc = "returned"
           /\ err = "none"
           /\ ret = IF save THEN Some(<<avg_loss[1], accuracy[1]>>)
                    ELSE Some(<<Zero, Zero>>)

\* C5: every rate of the evaluation pipeline evaluates to 0 instead of
\* failing when its denominator is zero, overall_accuracy of
\* _finalize_metrics for a dataset of declared size 0 included.
C5_RatesDegradeToZero ==
    (last.op = "_finalize_metrics")
        => /\ err = "none"
           /\ metrics # None
           /\ (dataset_len = 0 => metrics[1].overall_accuracy = Zero)
           /\ (SumValues(stats.total_per_class) = 0
                  => metrics[1].weighted_f1 = Zero)

\* C6: _update_per_class_dict with label sequences of different lengths
\* raises and leaves the structure as it was.
C6_MismatchFailsFast ==
    [][(last'.op = "_update_per_class_dict" /\ last'.pred_len # last'.true_len)
          => (err' # "none" /\ stats' = stats)]_vars

C8_RatesInUnitInterval ==
    /\ \A i \in Classes : Fp(stats, i) >= 0
    /\ (metrics # None) =>
          \A i \in Classes :
             /\ InUnitInterval(metrics[1].per_class_precision[i])
             /\ InUnitInterval(metrics[1].per_class_recall[i])
             /\ InUnitInterval(metrics[1].per_class_f1[i])

\* Metrics have been computed for a class recalled half of the time.
C8_Witness ==
    /\ last.op = "compute_classification_metrics"
    /\ \E i \in Classes :
          /\ Fn(stats, i) > 0
          /\ Tp(stats, i) > 0
          /\ metrics[1].per_class_recall[i] = <<1, 2>>
          /\ metrics[1].per_class_f1[i] = <<2, 3>>

\* C9: the retained snapshot is a copy: whatever happens to the parameters
\* of the model later, best_model_state holds the parameters the model had
\* at the observation that took it.
C9_SnapshotIsCopy ==
    (best_model_state # None)
        => StateValue(best_model_state[1]) = obs_best_params[1]

\* C10: for batches of equal-length label pairs, the counts that
\* compute_classification_metrics derives for every class are the confusion
\* counts of the whole pass, and tp + fn = support.
C10_CountsMatchReference ==
    \A i \in Classes :
       /\ Tp(stats, i) = RefTp(i)
       /\ Fn(stats, i) = RefFn(i)
       /\ Fp(stats, i) = RefFp(i)
       /\ Support(stats, i) = RefSupport(i)
       /\ Tp(stats, i) + Fn(stats, i) = Support(stats, i)

\* One class has a true positive, a false negative and a false positive.
C10_Witness ==
    /\ last.op = "test_batch"
    /\ \E i \in Classes : Tp(stats, i) > 0 /\ Fn(stats, i) > 0 /\ Fp(stats, i) > 0

====
